---- MODULE Spec2Model ----
(***************************************************************************)
(* Model of simulate_traffic.py: the statistics functions                  *)
(* (calculate_percentile, remove_outliers, find_vehicles_above_threshold)  *)
(* and the interactive controller (import_data, main).                     *)
(*                                                                         *)
(* Speeds are numpy float64 values in the program.  The model takes them   *)
(* from the naturals and computes every statistic exactly, as a fraction;  *)
(* float rounding is outside the model.  The one float effect the model    *)
(* keeps is IEEE division by zero: 0/0 is NaN, x/0 is infinite, and every  *)
(* ordered comparison with NaN is false.                                   *)
(***************************************************************************)
EXTENDS Integers, Sequences, FiniteSets

VARIABLES
    arg,      \* the array a statistics function is applied to
    call,     \* the last statistics call and what it returned
    pc,       \* where the process is: the prompt it blocks on, or its end
    stack,    \* the active main() frames, innermost last
    imports,  \* import_data() frames active inside the innermost main()
    inp,      \* the line the last input() call returned
    out,      \* what the last step printed, in order
    report,   \* the analysis handed to print/visualize_data, if any
    shown,    \* how many times the report and chart were produced
    mains     \* how many times main() was entered

vars == <<arg, call, pc, stack, imports, inp, out, report, shown, mains>>

-----------------------------------------------------------------------------
(* Bounds of the model *)

MaxLen == 3        \* longest array the statistics functions are applied to
MaxSpeed == 3      \* largest speed in such an array
MaxZ == 4          \* z thresholds are 1/2, 2/2, ..., MaxZ/2
MaxDepth == 3      \* most Python frames (main + import_data) on the stack
NumVehicles == 11  \* size of a simulated sample (DEFAULT_NUM_VEHICLES scaled)
MaxFast == 1       \* most fast vehicles in a simulated sample

(* Program constants *)

EU_STANDARD_PERCENTILE == 85
US_STANDARD_PERCENTILE == 90
DEFAULT_Z_THRESHOLD == 3
DEFAULT_MEAN_SPEED == 70
DEFAULT_STD_DEV_SPEED == 10
PercentScale == 100   \* np.percentile takes q in percent

-----------------------------------------------------------------------------
(* Sequences *)

RECURSIVE Sum(_)
Sum(s) == IF s = <<>> THEN 0 ELSE Head(s) + Sum(Tail(s))

\* a[mask]: numpy boolean-mask indexing keeps the elements whose mask entry
\* is true, in their order.
MaskSelect(a, mask) ==
    LET kept == {i \in 1..Len(a) : mask[i]}
    IN  [k \in 1..Cardinality(kept) |->
            a[CHOOSE i \in kept : Cardinality({j \in kept : j <= i}) = k]]

\* the array in ascending order: element i goes to the place given by the
\* number of elements that sort before it
np_sort(s) ==
    LET place(i) == Cardinality({j \in 1..Len(s) :
                        s[j] < s[i] \/ (s[j] = s[i] /\ j <= i)})
    IN  [k \in 1..Len(s) |-> s[CHOOSE i \in 1..Len(s) : place(i) = k]]

-----------------------------------------------------------------------------
(* calculate_percentile: np.percentile(speeds, nth_percentile), method      *)
(* 'linear'.  The virtual index is (n-1)*q/100; the result interpolates     *)
(* between the order statistics on either side of it.  The value is kept   *)
(* as the numerator of a fraction over PercentScale.                       *)

PercentileNoSort(speeds, nth_percentile) ==
    LET n == Len(speeds)
        pos == nth_percentile * (n - 1)
        lo == pos \div PercentScale
        hi == IF lo + 1 > n - 1 THEN n - 1 ELSE lo + 1
        g == pos % PercentScale
    IN  PercentScale * speeds[lo + 1] + g * (speeds[hi + 1] - speeds[lo + 1])

calculate_percentile(speeds, nth_percentile) ==
    LET a == np_sort(speeds)
        n == Len(a)
        pos == nth_percentile * (n - 1)
        lo == pos \div PercentScale
        hi == IF lo + 1 > n - 1 THEN n - 1 ELSE lo + 1
        g == pos % PercentScale
    IN  PercentScale * a[lo + 1] + g * (a[hi + 1] - a[lo + 1])

-----------------------------------------------------------------------------
(* remove_outliers.  With n = len(speeds) and S = sum(speeds):             *)
(*   mean    = S / n                                                       *)
(*   x-mean  = (n*x - S) / n                                               *)
(*   std_dev = sqrt(mean((x-mean)^2)) = sqrt(Q / n^3), Q = sum (n*x - S)^2 *)
(*   z       = (x-mean) / std_dev, so z^2 = n*(n*x - S)^2 / Q               *)
(* A z-score is kept as its kind and the fraction z^2 = num/den.            *)

\* n * (x - mean), mean being total / n
Deviation(n, total, x) == n * x - total

\* (x - mean) / std_dev in IEEE arithmetic; q is the sum of the squared
\* deviations n * (x - mean) over the array
ZScore(n, total, q, x) ==
    LET d == Deviation(n, total, x)
    IN  IF q = 0
        THEN [kind |-> IF d = 0 THEN "nan" ELSE "inf", num |-> 0, den |-> 1]
        ELSE [kind |-> "finite", num |-> n * d * d, den |-> q]

\* np.abs(z) >= z_threshold, the threshold being zt.num / zt.den
AbsGE(z, zt) ==
    \/ z.kind = "inf"
    \/ z.kind = "finite" /\ z.num * zt.den * zt.den >= zt.num * zt.num * z.den

AbsLE(z, zt) ==
    z.kind = "finite" /\ z.num * zt.den * zt.den <= zt.num * zt.num * z.den

\* np.abs(z) < z_threshold
AbsLT(z, zt) ==
    z.kind = "finite" /\ z.num * zt.den * zt.den < zt.num * zt.num * z.den

remove_outliers(speeds, z_threshold) ==
    LET n == Len(speeds)
        total == Sum(speeds)
        q == Sum([i \in 1..n |-> Deviation(n, total, speeds[i])
                                   * Deviation(n, total, speeds[i])])
        z_scores == [i \in 1..n |-> ZScore(n, total, q, speeds[i])]
        outliers == MaskSelect(speeds,
                        [i \in 1..n |-> AbsGE(z_scores[i], z_threshold)])
        cleaned_speeds == MaskSelect(speeds,
                        [i \in 1..n |-> AbsLT(z_scores[i], z_threshold)])
    IN  [cleaned |-> cleaned_speeds, removed |-> outliers]

-----------------------------------------------------------------------------
(* find_vehicles_above_threshold: speeds[speeds > threshold] *)

AboveOrEqual(x, threshold) == x >= threshold

Above(x, threshold) == x > threshold

find_vehicles_above_threshold(speeds, threshold) ==
    MaskSelect(speeds, [i \in 1..Len(speeds) |-> Above(speeds[i], threshold)])

-----------------------------------------------------------------------------
(* Console lines.  A line is a sequence of one-character strings.           *)

Digits == <<"0", "1", "2", "3", "4", "5", "6", "7", "8", "9">>

IsDigit(c) == \E d \in 1..Len(Digits) : Digits[d] = c

DigitValue(c) == (CHOOSE d \in 1..Len(Digits) : Digits[d] = c) - 1

\* str.strip(): drops leading and trailing whitespace
RECURSIVE LStrip(_)
LStrip(s) == IF s # <<>> /\ Head(s) = " " THEN LStrip(Tail(s)) ELSE s

RECURSIVE RStrip(_)
RStrip(s) ==
    IF s # <<>> /\ s[Len(s)] = " " THEN RStrip(SubSeq(s, 1, Len(s) - 1)) ELSE s

Strip(s) == RStrip(LStrip(s))

\* str.lower()
LowerChar(c) ==
    CASE c = "Y" -> "y" [] c = "E" -> "e" [] c = "S" -> "s"
      [] c = "N" -> "n" [] c = "O" -> "o" [] OTHER -> c

Lower(s) == [i \in 1..Len(s) |-> LowerChar(s[i])]

\* str.split(","): the pieces between commas; one piece more than commas,
\* so the empty line splits into one empty piece.
RECURSIVE Split(_)
Split(s) ==
    IF s = <<>> THEN << <<>> >>
    ELSE LET rest == Split(Tail(s))
         IN  IF Head(s) = "," THEN << <<>> >> \o rest
             ELSE << <<Head(s)>> \o Head(rest) >> \o Tail(rest)

RECURSIVE Decimal(_)
Decimal(ds) ==
    IF ds = <<>> THEN 0
    ELSE 10 * Decimal(SubSeq(ds, 1, Len(ds) - 1)) + DigitValue(ds[Len(ds)])

AllDigits(ds) == \A i \in 1..Len(ds) : IsDigit(ds[i])

\* float(tok) succeeds: surrounding whitespace is ignored, the rest is a
\* numeral (of the characters the model types, a non-empty digit string).
IsNumberOrBlank(tok) == AllDigits(Strip(tok))

IsNumber(tok) == Strip(tok) # <<>> /\ AllDigits(Strip(tok))

ParseFloat(tok) == Decimal(Strip(tok))

\* int(line) succeeds: surrounding whitespace ignored, optional sign, digits
IsInteger(line) ==
    LET s == Strip(line)
    IN  /\ s # <<>>
        /\ IF Head(s) = "-" THEN Tail(s) # <<>> /\ AllDigits(Tail(s))
           ELSE AllDigits(s)

ParseInt(line) ==
    LET s == Strip(line)
    IN  IF Head(s) = "-" THEN 0 - Decimal(Tail(s)) ELSE Decimal(s)

-----------------------------------------------------------------------------
(* What the user can type, and what the generator can draw *)

OptionLines ==
    {<<>>, <<"1">>, <<"2">>, <<"3">>, <<"4">>, <<"x">>,
     <<" ", "1">>, <<"2", " ">>, <<" ", "3", " ">>, <<"1", "2">>}

YesNoLines ==
    {<<>>, <<"y">>, <<"n", "o">>, <<"y", "e", "s">>, <<"Y", "E", "S">>,
     <<" ", "Y", "e", "s", " ">>}

ManualLines ==
    {<<>>, <<" ">>, <<"x">>, <<"5", ",">>, <<"1", ",", ",", "2">>,
     <<"1", " ", "2">>, <<"6", "0", ",", "x">>,
     <<"5">>, <<" ", "6", "0", ",", " ", "7", "5", " ">>}

CustomLines ==
    {<<>>, <<"x">>, <<"-">>, <<"8", ".", "5">>, <<"-", "1">>,
     <<"1", "0", "1">>, <<"0">>, <<"1", "0", "0">>, <<" ", "5", "0", " ">>}

\* generate_speed_data: NumVehicles draws from a normal distribution, seeded
\* from the clock.  The draws the model takes: k vehicles six standard
\* deviations above the mean, the others at the mean.
generate_speed_data ==
    {[i \in 1..NumVehicles |->
        IF i <= k THEN DEFAULT_MEAN_SPEED + 6 * DEFAULT_STD_DEV_SPEED
        ELSE DEFAULT_MEAN_SPEED] : k \in 1..MaxFast}

-----------------------------------------------------------------------------
(* The controller.  A main() frame holds main's locals; a local not yet     *)
(* assigned is <<>>, an assigned one <<value>>.                             *)

NewFrame == [speeds |-> <<>>, without |-> <<>>, removed |-> <<>>, nth |-> <<>>]

NoReport == <<>>

NoCall == [op |-> "none"]

Depth == Len(stack) + imports

\* the frame whose locals the running code reads
CurrentFrameIndex(stk) == Len(stk)

Top == stack[CurrentFrameIndex(stack)]

SetTop(f) == [stack EXCEPT ![Len(stack)] = f]

WelcomeOutput == <<"Welcome to the Vehicle Speed Analysis Tool!">>

DataPromptOutput == <<"Choose an option to provide speed data:">>

OutlierPromptOutput == <<"Would you like to remove outliers?">>

PercentilePromptOutput == <<"Choose the percentile threshold:">>

NoOutput(msg) == <<>>

\* print(f"Error: {e}") in an except clause; print("Invalid option...")
ErrorOutput(msg) == <<msg>>

ErrorMessages ==
    {"Invalid option. Please enter 1 or 2.",
     "Error: could not convert string to float",
     "Error: No speeds were provided.",
     "Error: Invalid option.",
     "Error: invalid literal for int()",
     "Error: Percentile must be between 0 and 100."}

SessionVarsIdle == arg = <<>> /\ call = NoCall

Init ==
    /\ SessionVarsIdle
    /\ pc = "DataOption"
    /\ stack = <<NewFrame>>
    /\ imports = 1
    /\ inp = <<>>
    /\ out = WelcomeOutput \o DataPromptOutput
    /\ report = NoReport
    /\ shown = 0
    /\ mains = 1

\* import_data returns speeds to main (through every retry's frame), and
\* main goes on to the outlier prompt
ImportReturns(speeds, printed) ==
    /\ stack' = SetTop([Top EXCEPT !.speeds = <<speeds>>])
    /\ imports' = 0
    /\ out' = printed \o OutlierPromptOutput
    /\ pc' = "OutlierOption"
    /\ UNCHANGED mains

\* return import_data(): one more import_data frame, prompting again
ImportRetries(msg) ==
    /\ Depth < MaxDepth
    /\ imports' = imports + 1
    /\ out' = ErrorOutput(msg) \o DataPromptOutput
    /\ pc' = "DataOption"
    /\ UNCHANGED <<stack, mains>>

\* import_data, from the option prompt
ChooseDataSource(line) ==
    /\ pc = "DataOption"
    /\ inp' = line
    /\ LET option == Strip(line)
       IN  IF option = <<"1">>
           THEN \E speeds \in generate_speed_data :
                    ImportReturns(speeds, <<"Simulating vehicle speeds">>)
           ELSE IF option = <<"2">>
           THEN /\ out' = <<"Enter a list of speeds, separated by commas">>
                /\ pc' = "ManualEntry"
                /\ UNCHANGED <<stack, imports, mains>>
           ELSE ImportRetries("Invalid option. Please enter 1 or 2.")
    /\ UNCHANGED <<arg, call, report, shown>>

\* import_data, from the manual-entry prompt
EnterSpeeds(line) ==
    /\ pc = "ManualEntry"
    /\ inp' = line
    /\ LET tokens == Split(line)
       IN  IF \E i \in 1..Len(tokens) : ~IsNumber(tokens[i])
           THEN ImportRetries("Error: could not convert string to float")
           ELSE LET speeds == [i \in 1..Len(tokens) |-> ParseFloat(tokens[i])]
                IN  IF Len(speeds) = 0
                    THEN ImportRetries("Error: No speeds were provided.")
                    ELSE ImportReturns(speeds, <<>>)
    /\ UNCHANGED <<arg, call, report, shown>>

\* main, from the outlier prompt to the percentile prompt
ChooseOutliers(line) ==
    /\ pc = "OutlierOption"
    /\ inp' = line
    /\ LET remove_outliers_option == Lower(Strip(line))
           speeds == Top.speeds[1]
           r == remove_outliers(speeds, [num |-> DEFAULT_Z_THRESHOLD, den |-> 1])
       IN  IF remove_outliers_option = <<"y", "e", "s">>
           THEN /\ stack' = SetTop([Top EXCEPT !.without = <<r.cleaned>>,
                                               !.removed = <<r.removed>>])
                /\ out' = <<"Outliers removed:", "Dataset size after outlier removal:",
                            "List of removed outliers:">> \o PercentilePromptOutput
           ELSE /\ stack' = SetTop([Top EXCEPT !.without = <<speeds>>])
                /\ out' = <<"Proceeding with the original data.">>
                            \o PercentilePromptOutput
    /\ pc' = "PercentileOption"
    /\ UNCHANGED <<arg, call, imports, report, shown, mains>>

\* return main(): a new main() frame, which enters import_data
Restart(stk) == Append(stk, NewFrame)

SelectionError(frame, msg) ==
    /\ Depth + 2 <= MaxDepth
    /\ stack' = Restart(SetTop(frame))
    /\ imports' = 1
    /\ mains' = mains + 1
    /\ out' = ErrorOutput(msg) \o WelcomeOutput \o DataPromptOutput
    /\ pc' = "DataOption"

PresetSwapped(option) ==
    IF option = <<"1">> THEN US_STANDARD_PERCENTILE ELSE EU_STANDARD_PERCENTILE

PresetPercentile(option) ==
    IF option = <<"1">> THEN EU_STANDARD_PERCENTILE ELSE US_STANDARD_PERCENTILE

\* main, from the percentile prompt
ChoosePercentile(line) ==
    /\ pc = "PercentileOption"
    /\ inp' = line
    /\ LET option == Strip(line)
       IN  IF option \in {<<"1">>, <<"2">>}
           THEN /\ stack' = SetTop([Top EXCEPT !.nth = <<PresetPercentile(option)>>])
                /\ out' = <<>>
                /\ pc' = "ComputeAndDisplay"
                /\ UNCHANGED <<imports, mains>>
           ELSE IF option = <<"3">>
           THEN /\ out' = <<>>
                /\ pc' = "CustomPercentile"
                /\ UNCHANGED <<stack, imports, mains>>
           ELSE SelectionError(Top, "Error: Invalid option.")
    /\ UNCHANGED <<arg, call, report, shown>>

NegativeOnly(nth_percentile) == nth_percentile < 0

OutOfRange(nth_percentile) == nth_percentile < 0 \/ nth_percentile > 100

\* main, from the custom-percentile prompt
EnterCustomPercentile(line) ==
    /\ pc = "CustomPercentile"
    /\ inp' = line
    /\ IF ~IsInteger(line)
       THEN SelectionError(Top, "Error: invalid literal for int()")
       ELSE LET frame == [Top EXCEPT !.nth = <<ParseInt(line)>>]
            IN  IF OutOfRange(ParseInt(line))
                THEN SelectionError(frame, "Error: Percentile must be between 0 and 100.")
                ELSE /\ stack' = SetTop(frame)
                     /\ out' = <<>>
                     /\ pc' = "ComputeAndDisplay"
                     /\ UNCHANGED <<imports, mains>>
    /\ UNCHANGED <<arg, call, report, shown>>

\* calculate_percentile as main calls it.  np.percentile of an empty array
\* either raises or returns NaN, by the numpy version.
PercentileOutcomes(speeds, nth_percentile) ==
    IF speeds = <<>>
    THEN {[raised |-> TRUE, nan |-> FALSE, value |-> 0],
          [raised |-> FALSE, nan |-> TRUE, value |-> 0]}
    ELSE {[raised |-> FALSE, nan |-> FALSE,
           value |-> calculate_percentile(speeds, nth_percentile)]}

\* what main computes and hands to print and visualize_data, from the
\* locals of frame k
AnalysisReport(stk, k, no_outliers) ==
    LET speeds == stk[k].speeds[1]
        nth_percentile == stk[k].nth[1]
        percentile_threshold == calculate_percentile(speeds, nth_percentile)
    IN  [frame |-> k,
         speeds |-> speeds,
         nth_percentile |-> nth_percentile,
         mean |-> [num |-> Sum(speeds), den |-> Len(speeds)],
         percentile_threshold |-> percentile_threshold,
         percentile_threshold_no_outliers |-> [nan |-> no_outliers.nan,
                                               value |-> no_outliers.value],
         excessive_speeds |->
             find_vehicles_above_threshold(
                 [i \in 1..Len(speeds) |-> PercentScale * speeds[i]],
                 percentile_threshold),
         total |-> Len(speeds)]

\* main, lines 167-185: the calculations, the printed results, the chart.
\* An exception here is outside main's try and ends the process.
ComputeAndDisplay ==
    /\ pc = "ComputeAndDisplay"
    /\ \E no_outliers \in PercentileOutcomes(
                              stack[CurrentFrameIndex(stack)].without[1],
                              stack[CurrentFrameIndex(stack)].nth[1]) :
           IF no_outliers.raised
           THEN /\ pc' = "Crashed"
                /\ stack' = <<>>
                /\ out' = <<"Traceback (most recent call last):">>
                /\ UNCHANGED <<report, shown>>
           ELSE /\ report' = <<AnalysisReport(stack, CurrentFrameIndex(stack),
                                              no_outliers)>>
                /\ shown' = shown + 1
                /\ out' = <<"Analysis Results:">>
                /\ pc' = "Returning"
                /\ UNCHANGED stack
    /\ UNCHANGED <<arg, call, imports, inp, mains>>

\* a main() frame returns to its caller; the outermost one ends the process
Return ==
    /\ pc = "Returning"
    /\ stack' = SubSeq(stack, 1, Len(stack) - 1)
    /\ pc' = IF Len(stack) = 1 THEN "Terminal" ELSE "Returning"
    /\ out' = <<>>
    /\ UNCHANGED <<arg, call, imports, inp, report, shown, mains>>

Next ==
    \/ \E line \in OptionLines : ChooseDataSource(line)
    \/ \E line \in ManualLines : EnterSpeeds(line)
    \/ \E line \in YesNoLines : ChooseOutliers(line)
    \/ \E line \in OptionLines : ChoosePercentile(line)
    \/ \E line \in CustomLines : EnterCustomPercentile(line)
    \/ ComputeAndDisplay
    \/ Return

Spec == Init /\ [][Next]_vars

-----------------------------------------------------------------------------
(* The statistics functions on their own: each applied to any array of at   *)
(* most MaxLen speeds, with any argument of a small set.                    *)

Samples == UNION {[1..k -> 0..MaxSpeed] : k \in 0..MaxLen}

ZThresholds == {[num |-> k, den |-> 2] : k \in 1..MaxZ}

Percentiles == {5 * k : k \in 0..20}

StatsInit ==
    /\ arg \in Samples
    /\ call = NoCall
    /\ pc = "Idle"
    /\ stack = <<>>
    /\ imports = 0
    /\ inp = <<>>
    /\ out = <<>>
    /\ report = NoReport
    /\ shown = 0
    /\ mains = 0

SessionVars == <<pc, stack, imports, inp, out, report, shown, mains>>

CallRemoveOutliers(z) ==
    /\ call' = [op |-> "remove_outliers", z |-> z,
                result |-> remove_outliers(arg, z)]
    /\ UNCHANGED <<arg, SessionVars>>

\* np.percentile of an empty array has no value (it raises, or returns NaN)
CallPercentile(p) ==
    /\ arg # <<>>
    /\ call' = [op |-> "calculate_percentile", p |-> p,
                result |-> calculate_percentile(arg, p)]
    /\ UNCHANGED <<arg, SessionVars>>

CallFindAbove(threshold) ==
    /\ call' = [op |-> "find_vehicles_above_threshold", threshold |-> threshold,
                result |-> find_vehicles_above_threshold(arg, threshold)]
    /\ UNCHANGED <<arg, SessionVars>>

StatsNext ==
    \/ \E z \in ZThresholds : CallRemoveOutliers(z)
    \/ \E p \in Percentiles : CallPercentile(p)
    \/ \E threshold \in 0..MaxSpeed : CallFindAbove(threshold)

StatsSpec == StatsInit /\ [][StatsNext]_vars

-----------------------------------------------------------------------------
(* Vocabulary of the properties *)

Count(s, x) == Cardinality({i \in 1..Len(s) : s[i] = x})

Values(s) == {s[i] : i \in 1..Len(s)}

\* r is s with some elements left out, the others in their order
RECURSIVE IsSubsequence(_, _)
IsSubsequence(r, s) ==
    IF r = <<>> THEN TRUE
    ELSE IF s = <<>> THEN FALSE
    ELSE IF Head(r) = Head(s) THEN IsSubsequence(Tail(r), Tail(s))
    ELSE IsSubsequence(r, Tail(s))

SumOfSquares(s) == Sum([i \in 1..Len(s) |-> s[i] * s[i]])

\* n^2 times the population variance: n * sum(x^2) - (sum x)^2
ScaledVariance(s) == Len(s) * SumOfSquares(s) - Sum(s) * Sum(s)

\* |x - mean(s)| / stddev(s) >= z, for z = zt.num / zt.den: squared and
\* cleared of fractions, (n*x - S)^2 * den^2 >= num^2 * (n^2 * variance)
ZAtLeast(s, x, zt) ==
    /\ ScaledVariance(s) > 0
    /\ (Len(s) * x - Sum(s)) * (Len(s) * x - Sum(s)) * zt.den * zt.den
          >= zt.num * zt.num * ScaledVariance(s)

ZBelow(s, x, zt) ==
    /\ ScaledVariance(s) > 0
    /\ (Len(s) * x - Sum(s)) * (Len(s) * x - Sum(s)) * zt.den * zt.den
          < zt.num * zt.num * ScaledVariance(s)

\* the k-th smallest element of s, k in 1..Len(s)
OrderStatistic(s, k) ==
    CHOOSE v \in Values(s) :
        /\ Cardinality({i \in 1..Len(s) : s[i] < v}) < k
        /\ Cardinality({i \in 1..Len(s) : s[i] <= v}) >= k

Minimum(s) == CHOOSE v \in Values(s) : \A w \in Values(s) : v <= w

Maximum(s) == CHOOSE v \in Values(s) : \A w \in Values(s) : v >= w

RemovedOutliers == call.op = "remove_outliers"

-----------------------------------------------------------------------------
\* C1: remove_outliers(s, z) partitions s, for every s (also one whose values
\* are all the same): cleaned and removed together hold each element of s
\* exactly as often as s does, their lengths add up to len(s), and each
\* keeps the order of s.
C1_Partition ==
    RemovedOutliers =>
        /\ Len(call.result.cleaned) + Len(call.result.removed) = Len(arg)
        /\ \A x \in Values(arg) :
               Count(call.result.cleaned, x) + Count(call.result.removed, x)
                   = Count(arg, x)
        /\ IsSubsequence(call.result.cleaned, arg)
        /\ IsSubsequence(call.result.removed, arg)

\* C2: when all elements of the sample are the same (standard deviation 0),
\* remove_outliers returns the whole sample as cleaned and nothing as
\* removed.
C2_ZeroVarianceGuard ==
    (RemovedOutliers /\ Cardinality(Values(arg)) <= 1) =>
        /\ call.result.cleaned = arg
        /\ call.result.removed = <<>>

\* C3: every element of removed has |x - mean| / stddev >= z, and every
\* element of cleaned has |x - mean| / stddev < z; an element exactly at z
\* is an outlier.
C3_Classification ==
    RemovedOutliers =>
        /\ \A i \in 1..Len(call.result.removed) :
               ZAtLeast(arg, call.result.removed[i], call.z)
        /\ \A i \in 1..Len(call.result.cleaned) :
               ZBelow(arg, call.result.cleaned[i], call.z)

\* a call that removed an element lying exactly at the threshold
C3_Witness ==
    /\ RemovedOutliers
    /\ \E i \in 1..Len(call.result.removed) :
           LET x == call.result.removed[i]
           IN  (Len(arg) * x - Sum(arg)) * (Len(arg) * x - Sum(arg))
                   * call.z.den * call.z.den
                 = call.z.num * call.z.num * ScaledVariance(arg)

\* C4: for a non-empty sample, the 0th percentile is the minimum, the 100th
\* the maximum, the percentile at p is the linear interpolation between the
\* order statistics on either side of rank p/100 * (len(s) - 1), and of two
\* calls on the same sample the one with the larger p returns no less.
C4_PercentileValue ==
    call.op = "calculate_percentile" =>
        LET n == Len(arg)
            rank == call.p * (n - 1)
            below == OrderStatistic(arg, (rank \div 100) + 1)
            above == OrderStatistic(arg, IF rank % 100 = 0 THEN (rank \div 100) + 1
                                              ELSE (rank \div 100) + 2)
        IN  /\ call.p = 0 => call.result = 100 * Minimum(arg)
            /\ call.p = 100 => call.result = 100 * Maximum(arg)
            /\ call.result = 100 * below + (rank % 100) * (above - below)

C4_Monotone ==
    (/\ call.op = "calculate_percentile"
     /\ call'.op = "calculate_percentile"
     /\ call.p <= call'.p) => call.result <= call'.result

C4_Percentile == []C4_PercentileValue /\ [][C4_Monotone]_vars

\* a percentile strictly between two elements of a sample that is not sorted
C4_Witness ==
    /\ call.op = "calculate_percentile"
    /\ call.result % 100 # 0
    /\ \E i \in 1..(Len(arg) - 1) : arg[i] > arg[i + 1]

\* C5: find_vehicles_above_threshold(s, t) returns the elements of s that
\* are strictly greater than t, in their order: none is <= t, and there are
\* as many as s has elements > t.
C5_StrictlyAbove ==
    call.op = "find_vehicles_above_threshold" =>
        /\ \A i \in 1..Len(call.result) : call.result[i] > call.threshold
        /\ Len(call.result) = Cardinality({i \in 1..Len(arg) : arg[i] > call.threshold})
        /\ IsSubsequence(call.result, arg)

\* a call that kept some elements and left out one equal to the threshold
C5_Witness ==
    /\ call.op = "find_vehicles_above_threshold"
    /\ call.result # <<>>
    /\ \E i \in 1..Len(arg) : arg[i] = call.threshold

-----------------------------------------------------------------------------
(* Properties of the controller *)

\* the line is a list of numerals between commas, each with optional blanks
\* around it: read left to right, st is "start" before a numeral, "digits"
\* inside one, "after" in the blanks that follow one
RECURSIVE IsSpeedList(_, _)
IsSpeedList(line, st) ==
    IF line = <<>> THEN st \in {"digits", "after"}
    ELSE LET c == Head(line)
         IN  IF c = " "
             THEN IsSpeedList(Tail(line), IF st = "start" THEN "start" ELSE "after")
             ELSE IF c = ","
             THEN st \in {"digits", "after"} /\ IsSpeedList(Tail(line), "start")
             ELSE IF IsDigit(c)
             THEN st \in {"start", "digits"} /\ IsSpeedList(Tail(line), "digits")
             ELSE FALSE

\* the answer at the percentile prompt (at) is one the claim calls invalid
InvalidSelection(at, line) ==
    \/ at = "PercentileOption" /\ Strip(line) \notin {<<"1">>, <<"2">>, <<"3">>}
    \/ at = "CustomPercentile" /\ ~IsInteger(line)
    \/ at = "CustomPercentile" /\ IsInteger(line) /\ ParseInt(line) \notin 0..100

AtSelection == pc \in {"PercentileOption", "CustomPercentile"}

HoldsSample == pc \in {"OutlierOption", "PercentileOption", "CustomPercentile",
                       "ComputeAndDisplay"}

\* C6: an invalid answer in SelectPercentile (a menu choice other than 1, 2,
\* 3, a custom value that is no integer or lies outside [0,100]) never leads
\* to ComputeAndDisplay: the session starts again at CollectInput in a new
\* main() whose sample, outlier decision and percentile are all still to be
\* collected, and nothing is computed or shown in that step.
C6_Restart ==
    (AtSelection /\ InvalidSelection(pc, inp')) =>
        /\ pc' = "DataOption"
        /\ mains' = mains + 1
        /\ Len(stack') = Len(stack) + 1
        /\ stack'[Len(stack')].speeds = <<>>
        /\ stack'[Len(stack')].without = <<>>
        /\ stack'[Len(stack')].nth = <<>>
        /\ report' = report
        /\ shown' = shown

C6_OnlyValidProceeds ==
    (AtSelection /\ pc' = "ComputeAndDisplay") => ~InvalidSelection(pc, inp')

C6_InvalidSelectionRestarts == [][C6_Restart /\ C6_OnlyValidProceeds]_vars

\* the session restarted after a custom percentile out of range: the earlier
\* sample is left behind in the enclosing frame
C6_Witness ==
    /\ pc = "DataOption"
    /\ Len(stack) = 2
    /\ stack[1].speeds # <<>>
    /\ stack[1].nth = <<101>>
    /\ stack[2].speeds = <<>>

\* C7: import_data hands main only a non-empty sequence of numbers; an
\* option other than 1 or 2, and a manual entry with a piece that is no
\* number (the empty entry too), put the session back at the data-source
\* prompt with no sample.
C7_SampleValid ==
    HoldsSample =>
        /\ Top.speeds # <<>>
        /\ Len(Top.speeds[1]) >= 1
        /\ \A i \in 1..Len(Top.speeds[1]) : Top.speeds[1][i] \in Nat

C7_Reprompt ==
    (\/ pc = "DataOption" /\ Strip(inp') \notin {<<"1">>, <<"2">>}
     \/ pc = "ManualEntry" /\ ~IsSpeedList(inp', "start")) =>
        /\ pc' = "DataOption"
        /\ imports' = imports + 1
        /\ stack' = stack
        /\ Top.speeds = <<>>

C7_Accept ==
    (pc = "ManualEntry" /\ IsSpeedList(inp', "start")) => pc' = "OutlierOption"

C8_Selected ==
    pc' = "ComputeAndDisplay" =>
        /\ stack'[Len(stack')].nth # <<>>
        /\ stack'[Len(stack')].nth[1] \in 0..100
        /\ pc = "PercentileOption" /\ Strip(inp') = <<"1">>
              => stack'[Len(stack')].nth[1] = 85
        /\ pc = "PercentileOption" /\ Strip(inp') = <<"2">>
              => stack'[Len(stack')].nth[1] = 90
        /\ pc = "PercentileOption" => Strip(inp') \in {<<"1">>, <<"2">>}
        /\ pc = "CustomPercentile"
              => IsInteger(inp') /\ stack'[Len(stack')].nth[1] = ParseInt(inp')

C8_Used ==
    shown' > shown =>
        /\ pc = "ComputeAndDisplay"
        /\ report'[1].nth_percentile = Top.nth[1]
        /\ report'[1].nth_percentile \in 0..100

C8_PercentileInUse == [][C8_Selected /\ C8_Used]_vars

\* results computed for the US preset, chosen in a restarted session
C8_Witness ==
    /\ report # NoReport
    /\ report[1].nth_percentile = 90
    /\ mains = 2

\* C9: every step that goes back to the data-source prompt (the retry of
\* import_data, the restart of main) prints an error message first, before
\* anything else it prints.
C9_Message ==
    (pc' = "DataOption") =>
        /\ out' # <<>>
        /\ Head(out') \in ErrorMessages
        /\ out'[Len(out')] = DataPromptOutput[1]

C9_ErrorsPrinted == [][C9_Message]_vars

\* a restart after a custom percentile that is no integer
C9_Witness ==
    /\ pc = "DataOption"
    /\ mains = 2
    /\ Head(out) = "Error: invalid literal for int()"

\* C10: in every run, whatever the retries and restarts, the report and
\* chart are produced at most once and from the sample, outlier decision and
\* percentile of the most recent main(); the frames then return with
\* nothing more computed or shown; and a run that has come to its end (valid
\* input having been given at each prompt) has ended in Terminal, with the
\* report produced.
Ended == pc \in {"Terminal", "Crashed"}

C10_OneReportThenTerminal ==
    /\ shown <= 1
    /\ report # NoReport =>
           /\ shown = 1
           /\ report[1].frame = mains
    /\ pc = "Returning" =>
           /\ shown = 1
           /\ report[1].speeds = stack[Len(stack)].speeds[1] \/ Len(stack) < mains
    /\ Ended => (pc = "Terminal" /\ shown = 1)

====
